---- MODULE Spec2Model ----
(***************************************************************************)
(* A model of proxy_checker_local_slow.py: the asyncio proxy checker.      *)
(*                                                                         *)
(* main() parses the command line, reads the proxy file, cuts the list in  *)
(* batches of max(1, len(proxies) // threads) lines and runs the batches   *)
(* one after another.  process_proxy_batch gathers one process_proxy task  *)
(* per line; a task probes the protocols selected for its line one after   *)
(* another (check_proxy) and keeps the results of the probes that worked.  *)
(*                                                                         *)
(* asyncio is cooperative: a coroutine runs without interruption from one  *)
(* await that suspends to the next.  One action of the model is one such   *)
(* run.  A task therefore goes from "its probe returned" to "its next      *)
(* probe is in flight" in one step, and the tasks of a batch all start     *)
(* their first probe in the event-loop iteration that follows gather(),    *)
(* before any network event is handled.                                    *)
(*                                                                         *)
(* Text (input lines, host:port) is a sequence of one-character strings,   *)
(* so that the regular expression is matched character by character.       *)
(*                                                                         *)
(* The module also models get_country_codes of ip_country.py, a script of  *)
(* its own: CountrySpec.  MockSpec and LiveSpec run the checker against a  *)
(* static prober, LiveSpec with the fairness of the event loop.            *)
(***************************************************************************)
EXTENDS Integers, Sequences, FiniteSets, TLC

VARIABLES
    args,         \* argparse namespace: input file lines, threads, flags
    pc,           \* where main() is
    protocols,    \* main's `protocols` list
    proxies,      \* main's `proxies` list (stripped non-empty lines)
    i,            \* main's loop variable: start of the current batch
    tasks,        \* the process_proxy tasks of the batch being gathered
    all_results,  \* main's `all_results`
    outfile,      \* the output file: has it been opened, the lines written
    progress,     \* the "Progress:" lines printed
    summary,      \* the summary printed at the end
    returned,     \* history: every return of check_proxy, in order of return,
                  \* with the body of the response of a probe that worked
    abandoned,    \* history: the probes in flight when the run was cancelled
    mock,         \* the prober: the network itself, or a static table
    ip_pc,        \* ip_country.py: where get_country_codes is
    ip_data,      \* ip_country.py: the (clean_ip, original) pairs
    ip_batch_size,\* ip_country.py: get_country_codes' batch_size
    ip_batch,     \* ip_country.py: the batches already posted
    ip_results,   \* ip_country.py: get_country_codes' `results`
    pk_pc,        \* p_check: where the run is
    pk_len,       \* p_check: len(proxy_list)
    pk_resume,    \* p_check: args.resume of the run
    pk_i,         \* p_check: process_proxy_list's batch index i
    pk_all_results, \* p_check: process_proxy_list's all_results
    pk_previous,  \* p_check: main's previous_results
    pk_progress,  \* p_check: the file progress.json
    pk_output,    \* p_check: the results file
    pk_runs,      \* p_check: the runs started so far
    pk_got,       \* history: what check_proxies last returned for each batch
    rt_max,       \* check_proxies: max_retries
    rt_pattern,   \* check_proxies: what each POST in turn will do
    rt_result     \* check_proxies: what the call did and returned

\* the state of ip_country.py
countryVars == <<ip_pc, ip_data, ip_batch_size, ip_batch, ip_results>>

\* the state of p_check.good_batch.py
pcheckVars == <<pk_pc, pk_len, pk_resume, pk_i, pk_all_results, pk_previous,
                pk_progress, pk_output, pk_runs, pk_got,
                rt_max, rt_pattern, rt_result>>

vars == <<args, pc, protocols, proxies, i, tasks, all_results, outfile,
          progress, summary, returned, abandoned, mock, countryVars,
          pcheckVars>>

----------------------------------------------------------------------------
(* Bounds of the model *)

MaxLines == 4
MaxThreads == 2
MaxWorkItems == 3

\* the longest file run against a static prober
MaxMockLines == 2

\* the longest file of the runs followed to their end
MaxLiveLines == 2

\* ip_country.py: the longest file of addresses, the largest batch_size
MaxIps == 3
MaxBatchSize == 2

\* p_check: the largest max_retries of a call of check_proxies, the longest
\* list in batches, the runs of one list
MaxRetries == 4
MaxBatches == 2
MaxRuns == 3

----------------------------------------------------------------------------
(* Text helpers *)

None == "None"

Min(S) == CHOOSE x \in S : \A y \in S : x <= y

Max2(a, b) == IF a >= b THEN a ELSE b

Min2(a, b) == IF a <= b THEN a ELSE b

Digits == {"0", "1", "2", "3", "4", "5", "6", "7", "8", "9"}

Whitespace == {" "}

RECURSIVE LStrip(_)
LStrip(s) == IF s # <<>> /\ Head(s) \in Whitespace THEN LStrip(Tail(s)) ELSE s

RECURSIVE RStrip(_)
RStrip(s) ==
    IF s # <<>> /\ s[Len(s)] \in Whitespace
    THEN RStrip(SubSeq(s, 1, Len(s) - 1))
    ELSE s

\* str.strip()
Strip(s) == RStrip(LStrip(s))

HasPrefix(s, p) == Len(s) >= Len(p) /\ SubSeq(s, 1, Len(p)) = p

----------------------------------------------------------------------------
(* PROXY_REGEX *)

\* the alternatives of the protocol group, in the order the regex tries them
SchemeChars ==
    << <<"h", "t", "t", "p">>,
       <<"h", "t", "t", "p", "s">>,
       <<"s", "o", "c", "k", "s", "4">>,
       <<"s", "o", "c", "k", "s", "5">> >>

SchemeName == <<"http", "https", "socks4", "socks5">>

NoMatch == [ok |-> FALSE, protocol |-> None, ip |-> <<>>, port |-> <<>>]

\* (?P<ip>[^:]+):(?P<port>\d+)$ matched against all of s
MatchHostPort(s, proto) ==
    LET colons == {k \in 1..Len(s) : s[k] = ":"}
    IN  IF colons = {} THEN NoMatch
        ELSE LET k == Min(colons)
                 ip == SubSeq(s, 1, k - 1)
                 port == SubSeq(s, k + 1, Len(s))
             IN  IF /\ ip # <<>>
                    /\ port # <<>>
                    /\ \A d \in 1..Len(port) : port[d] \in Digits
                 THEN [ok |-> TRUE, protocol |-> proto, ip |-> ip, port |-> port]
                 ELSE NoMatch

\* PROXY_REGEX.match(s): the optional scheme group is tried first, its
\* alternatives in order; when none leads to a match the group is skipped.
RegexMatch(s) ==
    LET prefix(n) == SchemeChars[n] \o <<":", "/", "/">>
        rest(n) == SubSeq(s, Len(prefix(n)) + 1, Len(s))
        hits == {n \in 1..Len(SchemeChars) :
                    HasPrefix(s, prefix(n)) /\ MatchHostPort(rest(n), None).ok}
    IN  IF hits # {}
        THEN MatchHostPort(rest(Min(hits)), SchemeName[Min(hits)])
        ELSE MatchHostPort(s, None)

----------------------------------------------------------------------------
(* Python helpers *)

Range(s) == {s[n] : n \in 1..Len(s)}

\* dict.get(key, default)
Get(d, key, default) == IF key \in DOMAIN d THEN d[key] ELSE default

RECURSIVE SeqSum(_)
SeqSum(s) == IF s = <<>> THEN 0 ELSE Head(s) + SeqSum(Tail(s))

\* [item for sublist in lists for item in sublist]
RECURSIVE Flatten(_)
Flatten(lists) ==
    IF lists = <<>> THEN <<>> ELSE Head(lists) \o Flatten(Tail(lists))

----------------------------------------------------------------------------
(* The command line *)

AllThree == <<"http", "socks4", "socks5">>

\* main, "Determine which protocols to check"
ProtocolsFromArgs(a) ==
    IF a.all THEN <<"all">>
    ELSE (IF a.http THEN <<"http">> ELSE <<>>)
         \o (IF a.socks4 THEN <<"socks4">> ELSE <<>>)
         \o (IF a.socks5 THEN <<"socks5">> ELSE <<>>)

\* validate_protocols.  protocol.lower().strip('-') leaves the names main
\* builds ("all", "http", "socks4", "socks5") as they are.
RECURSIVE validate_protocols(_)
validate_protocols(ps) ==
    IF ps = <<>> THEN <<>>
    ELSE LET protocol == Head(ps)
         IN  (IF protocol \in {"http", "https", "socks4", "socks5", "all"}
              THEN <<IF protocol = "https" THEN "http" ELSE protocol>>
              ELSE <<>>)
             \o validate_protocols(Tail(ps))

\* ProtocolsToTest with the hint of the line looked at before the command line
ProtocolsToTest_HintFirst(ps, original_protocol) ==
    IF "all" \in Range(ps) THEN AllThree
    ELSE IF original_protocol # None THEN <<original_protocol>>
    ELSE IF ps # <<>> THEN ps
    ELSE AllThree

\* process_proxy, "Determine which protocols to test"
ProtocolsToTest(ps, original_protocol) ==
    IF "all" \in Range(ps) THEN AllThree
    ELSE IF ps # <<>> THEN ps
    ELSE IF original_protocol # None THEN <<original_protocol>>
    ELSE AllThree

----------------------------------------------------------------------------
(* check_proxy *)

\* What the network does to one probe: session.get raises, or a response
\* arrives with a status and a body.  aiohttp's total timeout raises
\* TimeoutError after TIMEOUT seconds.
Raises(e) == [kind |-> "raise", exc |-> e]

Answers(st, js, d) == [kind |-> "http", status |-> st, json |-> js, data |-> d]

NoData == [x \in {} |-> ""]

Responses ==
    { Raises("TimeoutError"),
      Raises("ProxyConnectionError"),
      Raises("ProxyError"),
      Answers(503, TRUE, NoData),
      Answers(200, FALSE, NoData),
      Answers(200, TRUE, [query |-> "9.9.9.9", country |-> "US"]) }

\* the body ip-api.com sends for an address it cannot place: no country
NoCountryAnswer == Answers(200, TRUE, [query |-> "9.9.9.9"])

\* the proxy whose exit address ip-api.com cannot place
UnplacedProxy == <<"e", ":", "8">>

\* the response of a proxy that works, and of one that never responds: the
\* total timeout of the session expires
GoodAnswer == Answers(200, TRUE, [query |-> "9.9.9.9", country |-> "US"])

NeverAnswers == Raises("TimeoutError")

\* ResponsesTo without ClientTimeout: a proxy that never responds leaves
\* session.get waiting
ResponsesTo_NoTimeout(proxy, protocol) ==
    IF mock.on
    THEN (IF <<proxy, protocol>> \in mock.works THEN {GoodAnswer} ELSE {})
    ELSE Responses \ {NeverAnswers}

\* what the network can do to a probe of proxy under protocol.  With a
\* static prober the proxies of its table work and the others never respond.
ResponsesTo(proxy, protocol) ==
    IF mock.on
    THEN (IF <<proxy, protocol>> \in mock.works THEN {GoodAnswer}
          ELSE {NeverAnswers})
    ELSE IF proxy = UnplacedProxy THEN Responses \cup {NoCountryAnswer}
    ELSE Responses

\* round(response_time * 1000): the time measured, in ms
PingMs == 50

Working(proxy, protocol, data) ==
    [raised |-> FALSE, success |-> TRUE,
     result |-> [proxy |-> proxy, protocol |-> protocol,
                 ip |-> Get(data, "query", ""),
                 country |-> Get(data, "country", ""),
                 ping |-> PingMs, status |-> "Working"]]

\* an exception leaving check_proxy
Raised == [raised |-> TRUE, success |-> FALSE, result |-> [status |-> "Raised"]]

\* Failed when the time measured is reported for a failed probe too
Failed_WithPing(proxy, protocol) ==
    [raised |-> FALSE, success |-> FALSE,
     result |-> [proxy |-> proxy, protocol |-> protocol, ping |-> PingMs,
                 status |-> "Failed"]]

Failed(proxy, protocol) ==
    [raised |-> FALSE, success |-> FALSE,
     result |-> [proxy |-> proxy, protocol |-> protocol, status |-> "Failed"]]

\* check_proxy without its try/except: what session.get or response.json()
\* raises leaves the function
check_proxy_NoTry(proxy, protocol, resp) ==
    IF resp.kind = "raise" THEN Raised
    ELSE IF resp.status # 200 THEN Failed(proxy, protocol)
    ELSE IF ~resp.json THEN Raised
    ELSE Working(proxy, protocol, resp.data)

\* check_proxy(proxy, protocol) when the network does resp.  Both branches
\* (the SOCKS connector and the plain session) handle the response alike.
\* An exception is swallowed by "except Exception: pass"; response.json()
\* raises on a body that is not JSON; a status other than 200 falls through.
check_proxy(proxy, protocol, resp) ==
    IF resp.kind = "raise" THEN Failed(proxy, protocol)
    ELSE IF resp.status # 200 THEN Failed(proxy, protocol)
    ELSE IF ~resp.json THEN Failed(proxy, protocol)
    ELSE Working(proxy, protocol, resp.data)

----------------------------------------------------------------------------
(* The inputs the model is run on *)

LinePlain == <<"a", ":", "8", "0">>

LineHttp == <<"h", "t", "t", "p", ":", "/", "/", "b", ":", "8">>

LineHttps == <<"h", "t", "t", "p", "s", ":", "/", "/", "c", ":", "8">>

LineSocks5 == <<"s", "o", "c", "k", "s", "5", ":", "/", "/", "e", ":", "8">>

LineBad == <<"b", "a", "d">>

LinePadded == <<" ", "a", ":", "8", " ">>

LineBlank == <<" ">>

\* malformed lines: no port, a port that is not a number, no host
LineNoPort == <<"a", ":">>

LineAlphaPort == <<"a", ":", "x">>

LineNoHost == <<":", "8">>

\* a scheme in capitals
LineUpper == <<"H", "T", "T", "P", ":", "/", "/", "a", ":", "8">>

\* the file 1.2.3.4:8080, http://5.6.7.8:3128, bad-line
ScenarioFile ==
    << <<"1", ".", "2", ".", "3", ".", "4", ":", "8", "0", "8", "0">>,
       <<"h", "t", "t", "p", ":", "/", "/", "5", ".", "6", ".", "7", ".", "8", ":", "3",
          "1", "2", "8">>,
       <<"b", "a", "d", "-", "l", "i", "n", "e">> >>

\* lines of the files of up to MaxLines lines
CoordLines == {LinePlain, LineHttp, LineBad}

\* lines of the one-line files
ParseLines ==
    {LinePlain, LineHttp, LineHttps, LineSocks5, LineBad, LinePadded, LineBlank,
     LineNoPort, LineAlphaPort, LineNoHost, LineUpper}

SeqsUpTo(S, n) == UNION {[1..m -> S] : m \in 0..n}

\* the protocols process_proxy tests for a line of the file
TestsOf(proxy_line, ps) ==
    LET match == RegexMatch(Strip(proxy_line))
    IN  IF match.ok THEN ProtocolsToTest(ps, match.protocol) ELSE <<>>

\* the number of (line, protocol) pairs a command line asks to probe
WorkItemCount(a) ==
    LET ps == validate_protocols(ProtocolsFromArgs(a))
    IN  SeqSum([n \in 1..Len(a.input_file) |-> Len(TestsOf(a.input_file[n], ps))])

Flags == [all : BOOLEAN, http : BOOLEAN, socks4 : BOOLEAN, socks5 : BOOLEAN]

\* the flags the files of several lines are run with: -all alone, or any of
\* -http and -socks5
CoordFlags ==
    {c \in Flags : ~c.socks4 /\ (c.all => ~c.http /\ ~c.socks5)}

ArgsOf(files, flags) ==
    {[input_file |-> f, threads |-> t,
      all |-> c.all, http |-> c.http, socks4 |-> c.socks4, socks5 |-> c.socks5] :
        f \in files, t \in 1..MaxThreads, c \in flags}

NoFlags == {c \in Flags : ~c.all /\ ~c.http /\ ~c.socks4 /\ ~c.socks5}

\* the command lines of the runs: the files of up to MaxLines lines that ask
\* for at most MaxWorkItems probes, the one-line files, and ScenarioFile
\* without flags
ArgsSpace ==
    {a \in ArgsOf(SeqsUpTo(CoordLines, MaxLines), CoordFlags)
           \cup ArgsOf(SeqsUpTo(ParseLines, 1), Flags) :
        WorkItemCount(a) <= MaxWorkItems}
    \cup ArgsOf({ScenarioFile}, NoFlags)

----------------------------------------------------------------------------
(* main and its tasks *)

NotOpened == [opened |-> FALSE, lines |-> <<>>]

NoSummary == [printed |-> FALSE]

\* the probes go to the network: any response may come
NoMock == [on |-> FALSE, works |-> {}]

\* no progress.json, no results file
NoFile == [exists |-> FALSE]

\* check_proxies has not been called
NotCalled == [kind |-> "not called"]

\* p_check.good_batch.py is not running
PCheckIdle ==
    /\ pk_pc = "off"
    /\ pk_len = 0
    /\ pk_resume = FALSE
    /\ pk_i = 0
    /\ pk_all_results = <<>>
    /\ pk_previous = <<>>
    /\ pk_progress = NoFile
    /\ pk_output = NoFile
    /\ pk_runs = 0
    /\ pk_got = <<>>
    /\ rt_max = 0
    /\ rt_pattern = <<>>
    /\ rt_result = NotCalled

\* ip_country.py is not running
CountryIdle ==
    /\ ip_pc = "off"
    /\ ip_data = <<>>
    /\ ip_batch_size = 1
    /\ ip_batch = 0
    /\ ip_results = <<>>

Init ==
    /\ args \in ArgsSpace
    /\ pc = "import"
    /\ protocols = <<>>
    /\ proxies = <<>>
    /\ i = 0
    /\ tasks = <<>>
    /\ all_results = <<>>
    /\ outfile = NotOpened
    /\ progress = <<>>
    /\ summary = NoSummary
    /\ returned = <<>>
    /\ abandoned = {}
    /\ mock = NoMock
    /\ CountryIdle
    /\ PCheckIdle

\* batch_size when a batch is --threads lines
batch_size_Threads == Max2(1, args.threads)

\* batch_size = max(1, len(proxies) // args.threads)
batch_size == Max2(1, Len(proxies) \div args.threads)

\* sum(1 for r in results if r.get('status') == 'Working')
WorkingCount(results) ==
    Len(SelectSeq(results, LAMBDA r : Get(r.result, "status", None) = "Working"))

\* NewTask without "if not match: return results": a line that does not
\* match is probed as it is written
NewTask_NoMatchCheck(n, proxy_line, ps) ==
    LET match == RegexMatch(Strip(proxy_line))
    IN  [line |-> n,
         proxy |-> IF match.ok THEN match.ip \o <<":">> \o match.port
                   ELSE Strip(proxy_line),
         tests |-> ProtocolsToTest(ps, match.protocol),
         k |-> 1,
         results |-> <<>>]

\* a process_proxy coroutine up to its first probe: the line is matched and
\* the protocols to test are chosen.  k is the position in tests of the probe
\* in flight; the task has returned once k is past the end of tests.
NewTask(n, proxy_line, ps) ==
    LET match == RegexMatch(Strip(proxy_line))
    IN  [line |-> n,
         proxy |-> match.ip \o <<":">> \o match.port,
         tests |-> IF match.ok THEN ProtocolsToTest(ps, match.protocol) ELSE <<>>,
         k |-> 1,
         results |-> <<>>]

InFlight(t) == t.k <= Len(t.tests)

\* the probes that have started and not returned
ProbesInFlight == {j \in DOMAIN tasks : InFlight(tasks[j])}

\* TaskAfterProbe when the result is kept whether the probe worked or not
TaskAfterProbe_KeepFailed(t, out) ==
    [t EXCEPT !.k = @ + 1,
              !.results = Append(@, [line |-> t.line, result |-> out.result])]

\* TaskAfterProbe when a failed probe is tried again
TaskAfterProbe_Retry(t, out) ==
    [t EXCEPT !.k = IF out.success THEN @ + 1 ELSE @,
              !.results = IF out.success
                          THEN Append(@, [line |-> t.line, result |-> out.result])
                          ELSE @]

\* process_proxy after check_proxy returned out: a working result is kept,
\* and the loop goes on to the next protocol
TaskAfterProbe(t, out) ==
    [t EXCEPT !.k = @ + 1,
              !.results = IF out.success
                          THEN Append(@, [line |-> t.line, result |-> out.result])
                          ELSE @]

\* __main__: without aiohttp_socks the script exits with status 1
ImportAiohttpSocks ==
    /\ pc = "import"
    /\ \E found \in BOOLEAN : pc' = IF found THEN "args" ELSE "exit1"
    /\ UNCHANGED <<args, protocols, proxies, i, tasks, all_results, outfile,
                   progress, summary, returned, abandoned>>
    /\ UNCHANGED <<mock, countryVars, pcheckVars>>

\* main, from parse_args to validate_protocols
ParseArgs ==
    /\ pc = "args"
    /\ protocols' = validate_protocols(ProtocolsFromArgs(args))
    /\ pc' = "read"
    /\ UNCHANGED <<args, proxies, i, tasks, all_results, outfile, progress,
                   summary, returned, abandoned>>
    /\ UNCHANGED <<mock, countryVars, pcheckVars>>

\* [line.strip() for line in lines if line.strip()]
RECURSIVE StrippedLines(_)
StrippedLines(lines) ==
    IF lines = <<>> THEN <<>>
    ELSE (IF Strip(Head(lines)) # <<>> THEN <<Strip(Head(lines))>> ELSE <<>>)
         \o StrippedLines(Tail(lines))

\* main, "Read proxies from file": an error is printed and main returns
ReadInput ==
    /\ pc = "read"
    /\ \E readable \in BOOLEAN :
         IF readable
         THEN /\ proxies' = StrippedLines(args.input_file)
              /\ pc' = IF Len(proxies') > 0 THEN "loop" ELSE "save"
         ELSE /\ proxies' = proxies
              /\ pc' = "aborted"
    /\ i' = 0
    /\ UNCHANGED <<args, protocols, tasks, all_results, outfile, progress,
                   summary, returned, abandoned>>
    /\ UNCHANGED <<mock, countryVars, pcheckVars>>

\* the tasks process_proxy_batch gathers for proxies[i:i+batch_size]
BatchTasks ==
    LET last == Min2(i + batch_size, Len(proxies))
    IN  [j \in 1..(last - i) |-> NewTask(i + j, proxies[i + j], protocols)]

\* main's loop body up to "await asyncio.gather", and the first step of each
\* task of the batch
StartBatch ==
    /\ pc = "loop"
    /\ tasks' = BatchTasks
    /\ pc' = "gather"
    /\ UNCHANGED <<args, protocols, proxies, i, all_results, outfile, progress,
                   summary, returned, abandoned>>
    /\ UNCHANGED <<mock, countryVars, pcheckVars>>

\* the probe of task j returns: the network did resp.  An exception that
\* left check_proxy would leave process_proxy, gather and main as well.
ProbeReturns(j, resp) ==
    /\ pc = "gather"
    /\ j \in DOMAIN tasks
    /\ InFlight(tasks[j])
    /\ LET t == tasks[j]
           out == check_proxy(t.proxy, t.tests[t.k], resp)
       IN  IF out.raised
           THEN /\ pc' = "crashed"
                /\ tasks' = <<>>
                /\ returned' = returned
           ELSE /\ pc' = pc
                /\ tasks' = [tasks EXCEPT ![j] = TaskAfterProbe(t, out)]
                /\ returned' =
                     Append(returned,
                            [line |-> t.line, protocol |-> t.tests[t.k],
                             success |-> out.success, result |-> out.result,
                             data |-> IF out.success THEN resp.data ELSE NoData])
    /\ UNCHANGED <<args, protocols, proxies, i, all_results, outfile,
                   progress, summary, abandoned>>
    /\ UNCHANGED <<mock, countryVars, pcheckVars>>

\* the results of the batch in the order the probes returned, as
\* asyncio.as_completed would give them
Gathered_CompletionOrder ==
    LET done == SelectSeq(returned, LAMBDA r : r.success /\ r.line > i)
    IN  [m \in 1..Len(done) |-> [line |-> done[m].line, result |-> done[m].result]]

\* the results of the batch when main waits for the first task to return
\* only, as asyncio.wait(return_when=FIRST_COMPLETED) would: the results of
\* the line whose probe returned first
Gathered_FirstCompleted ==
    LET done == SelectSeq(returned, LAMBDA r : r.line > i)
    IN  IF done = <<>> THEN <<>> ELSE tasks[done[1].line - i].results

\* what asyncio.gather returns, flattened: the tasks' results in task order
Gathered == Flatten([j \in DOMAIN tasks |-> tasks[j].results])

\* BatchDone when main leaves the loop after the first batch
BatchDone_SaveEarly ==
    /\ pc = "gather"
    /\ ProbesInFlight = {}
    /\ all_results' = all_results \o Gathered
    /\ progress' = Append(progress,
                          [done |-> Min2(i + batch_size, Len(proxies)),
                           total |-> Len(proxies),
                           working |-> WorkingCount(all_results')])
    /\ i' = i + batch_size
    /\ pc' = "save"
    /\ tasks' = <<>>
    /\ UNCHANGED <<args, protocols, proxies, outfile, summary, returned,
                   abandoned>>
    /\ UNCHANGED <<mock, countryVars, pcheckVars>>

\* BatchDone when the progress line prints i + batch_size as it is
BatchDone_NoMin ==
    /\ pc = "gather"
    /\ ProbesInFlight = {}
    /\ all_results' = all_results \o Gathered
    /\ progress' = Append(progress,
                          [done |-> i + batch_size,
                           total |-> Len(proxies),
                           working |-> WorkingCount(all_results')])
    /\ i' = i + batch_size
    /\ pc' = IF i' < Len(proxies) THEN "loop" ELSE "save"
    /\ tasks' = <<>>
    /\ UNCHANGED <<args, protocols, proxies, outfile, summary, returned,
                   abandoned>>
    /\ UNCHANGED <<mock, countryVars, pcheckVars>>

\* every task of the batch has returned: main extends all_results, prints
\* the progress line and goes round the loop
BatchDone ==
    /\ pc = "gather"
    /\ ProbesInFlight = {}
    /\ all_results' = all_results \o Gathered
    /\ progress' = Append(progress,
                          [done |-> Min2(i + batch_size, Len(proxies)),
                           total |-> Len(proxies),
                           working |-> WorkingCount(all_results')])
    /\ i' = i + batch_size
    /\ pc' = IF i' < Len(proxies) THEN "loop" ELSE "save"
    /\ tasks' = <<>>
    /\ UNCHANGED <<args, protocols, proxies, outfile, summary, returned,
                   abandoned>>
    /\ UNCHANGED <<mock, countryVars, pcheckVars>>

\* the line save_results writes for a result:
\* {protocol}://{proxy} - Country: {country}, Ping: {ping}ms
FormatLine(r) ==
    <<r.protocol, "://", r.proxy, " - Country: ", Get(r, "country", "Unknown"),
      ", Ping: ", Get(r, "ping", "N/A"), "ms">>

\* the lines left in the file when it is opened with 'w' for each result
\* in turn: the last line written
OutputLines_LastOnly(results) ==
    LET working == SelectSeq(results,
                             LAMBDA r : Get(r.result, "status", None) = "Working")
    IN  IF working = <<>> THEN <<>>
        ELSE <<FormatLine(working[Len(working)].result)>>

\* the lines save_results writes for a list of results
RECURSIVE OutputLines(_)
OutputLines(results) ==
    IF results = <<>> THEN <<>>
    ELSE (IF Get(Head(results).result, "status", None) = "Working"
          THEN <<FormatLine(Head(results).result)>>
          ELSE <<>>)
         \o OutputLines(Tail(results))

\* protocols_found when a protocol met again is set to 1, not incremented
ProtocolsFound_NoIncrement(results) ==
    LET working == SelectSeq(results,
                             LAMBDA r : Get(r.result, "status", None) = "Working")
        found == {Get(working[n].result, "protocol", "unknown") :
                     n \in 1..Len(working)}
    IN  [p \in found |-> 1]

\* main, "Print by protocol type": protocols_found
ProtocolsFound(results) ==
    LET working == SelectSeq(results,
                             LAMBDA r : Get(r.result, "status", None) = "Working")
        found == {Get(working[n].result, "protocol", "unknown") :
                     n \in 1..Len(working)}
    IN  [p \in found |->
            Len(SelectSeq(working,
                          LAMBDA r : Get(r.result, "protocol", "unknown") = p))]

\* the total of the summary when only the lines that match are counted
TotalChecked_Matched ==
    Len(SelectSeq(proxies, LAMBDA l : RegexMatch(l).ok))

\* "Total proxies checked: {len(proxies)}"
TotalChecked == Len(proxies)

\* main from save_results to the end.  aiofiles.open(output_file, 'w') may
\* fail: the exception leaves main and asyncio.run, nothing catches it.
SaveResults ==
    /\ pc = "save"
    /\ \E writable \in BOOLEAN :
         IF writable
         THEN /\ outfile' = [opened |-> TRUE, lines |-> OutputLines(all_results)]
              /\ summary' = [printed |-> TRUE,
                             total |-> TotalChecked,
                             working |-> WorkingCount(all_results),
                             by_protocol |-> ProtocolsFound(all_results)]
              /\ pc' = "done"
         ELSE /\ UNCHANGED <<outfile, summary>>
              /\ pc' = "crashed"
    /\ UNCHANGED <<args, protocols, proxies, i, tasks, all_results, progress,
                   returned, abandoned>>
    /\ UNCHANGED <<mock, countryVars, pcheckVars>>

Running == pc \in {"args", "read", "loop", "gather", "save"}

\* Cancel when the interrupt handler writes what main had accumulated
Cancel_SaveFirst ==
    /\ Running
    /\ pc' = "interrupted"
    /\ tasks' = <<>>
    /\ abandoned' = {[line |-> tasks[j].line, protocol |-> tasks[j].tests[tasks[j].k]] :
                        j \in ProbesInFlight}
    /\ outfile' = [opened |-> TRUE, lines |-> OutputLines(all_results)]
    /\ UNCHANGED <<args, protocols, proxies, i, all_results, progress,
                   summary, returned>>
    /\ UNCHANGED <<mock, countryVars, pcheckVars>>

\* KeyboardInterrupt while asyncio.run(main()) runs: main and the tasks are
\* cancelled (CancelledError is not an Exception, check_proxy lets it
\* through), the handler prints a message and the script ends.  all_results
\* keeps what main had accumulated, for the record: main's frame is gone.
Cancel ==
    /\ Running
    /\ pc' = "interrupted"
    /\ tasks' = <<>>
    /\ abandoned' = {[line |-> tasks[j].line, protocol |-> tasks[j].tests[tasks[j].k]] :
                        j \in ProbesInFlight}
    /\ UNCHANGED <<args, protocols, proxies, i, all_results, outfile, progress,
                   summary, returned>>
    /\ UNCHANGED <<mock, countryVars, pcheckVars>>

\* the probe of task j returns
ProbeEnds(j) ==
    /\ j \in DOMAIN tasks
    /\ InFlight(tasks[j])
    /\ \E resp \in ResponsesTo(tasks[j].proxy, tasks[j].tests[tasks[j].k]) :
           ProbeReturns(j, resp)

Next ==
    \/ ImportAiohttpSocks
    \/ ParseArgs
    \/ ReadInput
    \/ StartBatch
    \/ \E j \in DOMAIN tasks : ProbeEnds(j)
    \/ BatchDone
    \/ SaveResults
    \/ Cancel

Spec == Init /\ [][Next]_vars

\* the (host:port, protocol) pairs a command line asks to probe
KeysOf(a) ==
    LET ps == validate_protocols(ProtocolsFromArgs(a))
    IN  UNION {LET tests == TestsOf(a.input_file[n], ps)
                   match == RegexMatch(Strip(a.input_file[n]))
               IN  {<<match.ip \o <<":">> \o match.port, tests[q]>> :
                       q \in 1..Len(tests)} :
                  n \in 1..Len(a.input_file)}

\* the command lines run against a static prober
MockArgs == {a \in ArgsSpace : Len(a.input_file) <= MaxMockLines}

\* a run against a static prober: a table of the (host:port, protocol) pairs
\* that work, the same for every probe of the run
InitMock ==
    /\ args \in MockArgs
    /\ mock \in {[on |-> TRUE, works |-> w] : w \in SUBSET KeysOf(args)}
    /\ pc = "import"
    /\ protocols = <<>>
    /\ proxies = <<>>
    /\ i = 0
    /\ tasks = <<>>
    /\ all_results = <<>>
    /\ outfile = NotOpened
    /\ progress = <<>>
    /\ summary = NoSummary
    /\ returned = <<>>
    /\ abandoned = {}
    /\ CountryIdle
    /\ PCheckIdle

MockSpec == InitMock /\ [][Next]_vars

\* a step of the program: any step but the interrupt
Steps ==
    \/ ImportAiohttpSocks
    \/ ParseArgs
    \/ ReadInput
    \/ StartBatch
    \/ \E j \in DOMAIN tasks : ProbeEnds(j)
    \/ BatchDone
    \/ SaveResults

\* the steps of main follow each other, the event loop runs a coroutine that
\* is ready, and the timer of ClientTimeout(total=TIMEOUT) ends a session.get
\* that got no answer: while a step is possible, a step is taken.  An
\* interrupt may come or not.
Fairness == WF_vars(Steps)

\* the command lines of the runs followed to their end: short files of
\* well-formed lines, no flag
LiveArgs ==
    {a \in ArgsOf(SeqsUpTo({LinePlain, LineHttp}, MaxLiveLines), NoFlags) :
        WorkItemCount(a) <= MaxWorkItems}

\* a run against a prober where no proxy responds, or only the proxies
\* probed under http do
InitLive ==
    /\ args \in LiveArgs
    /\ mock \in {[on |-> TRUE, works |-> w] :
                    w \in {{}, {key \in KeysOf(args) : key[2] = "http"}}}
    /\ pc = "import"
    /\ protocols = <<>>
    /\ proxies = <<>>
    /\ i = 0
    /\ tasks = <<>>
    /\ all_results = <<>>
    /\ outfile = NotOpened
    /\ progress = <<>>
    /\ summary = NoSummary
    /\ returned = <<>>
    /\ abandoned = {}
    /\ CountryIdle
    /\ PCheckIdle

LiveSpec == InitLive /\ [][Next]_vars /\ Fairness

\* the longest file of the runs whose batches are followed
MaxCoordLines == 5

\* the files of the runs whose batches are followed: lines that ask for one
\* probe (a scheme is written), the last line maybe one that asks for none
\* (no port)
CoordFiles ==
    SeqsUpTo({LineHttp}, MaxCoordLines)
    \cup {Append(f, LineNoPort) : f \in SeqsUpTo({LineHttp}, MaxCoordLines - 1)}

\* the command lines of these runs: no flag
CoordArgs == ArgsOf(CoordFiles, NoFlags)

\* a run against a prober where no proxy responds
InitCoord ==
    /\ args \in CoordArgs
    /\ mock = [on |-> TRUE, works |-> {}]
    /\ pc = "import"
    /\ protocols = <<>>
    /\ proxies = <<>>
    /\ i = 0
    /\ tasks = <<>>
    /\ all_results = <<>>
    /\ outfile = NotOpened
    /\ progress = <<>>
    /\ summary = NoSummary
    /\ returned = <<>>
    /\ abandoned = {}
    /\ CountryIdle
    /\ PCheckIdle

CoordSpec == InitCoord /\ [][Next]_vars /\ Fairness

----------------------------------------------------------------------------
(* ip_country.py: get_country_codes *)

\* the state of proxy_checker_local_slow.py
checkerVars == <<args, pc, protocols, proxies, i, tasks, all_results, outfile,
                 progress, summary, returned, abandoned, mock>>

\* re.sub(r':\d+$', '', s): a colon and digits at the end of s are removed
StripPort(s) ==
    LET ks == {k \in 1..(Len(s) - 1) :
                  /\ s[k] = ":"
                  /\ \A m \in (k + 1)..Len(s) : s[m] \in Digits}
    IN  IF ks = {} THEN s ELSE SubSeq(s, 1, Min(ks) - 1)

\* parse_ip: (clean_ip, original_ip)
parse_ip(ip_string) == <<StripPort(Strip(ip_string)), Strip(ip_string)>>

\* the lines of the files of addresses
IpLines ==
    { <<"a", ":", "8">>, <<"a", ":", "9">>, <<"a">>, <<"b", ":", "8">> }

\* clean_ips = [item[0] for item in ip_data]
clean_ips == [k \in DOMAIN ip_data |-> ip_data[k][1]]

\* ip_mapping = {item[0]: item[1] for item in ip_data}: a later item with
\* the same clean IP replaces an earlier one
ip_mapping ==
    [c \in Range(clean_ips) |->
        ip_data[CHOOSE k \in DOMAIN ip_data :
                   /\ ip_data[k][1] = c
                   /\ \A m \in DOMAIN ip_data : ip_data[m][1] = c => m <= k][2]]

\* len(chunk_list(clean_ips, batch_size))
BatchCount == (Len(ip_data) + ip_batch_size - 1) \div ip_batch_size

\* the positions in ip_data of the entries of batch number b (from 0)
BatchEntries(b) ==
    [k \in 1..(Min2((b + 1) * ip_batch_size, Len(ip_data)) - b * ip_batch_size)
        |-> b * ip_batch_size + k]

\* what requests.post can do: status 200 with the list of answers, another
\* status, an exception
BatchResponses == {"ok", "http_error", "exception"}

\* the script has been started on a file: main has read it and made ip_data
InitCountry ==
    /\ ip_pc = "call"
    /\ \E raw_ips \in SeqsUpTo(IpLines, MaxIps) :
         ip_data = [k \in DOMAIN raw_ips |-> parse_ip(raw_ips[k])]
    /\ ip_batch_size \in 1..MaxBatchSize
    /\ ip_batch = 0
    /\ ip_results = <<>>
    /\ args = [input_file |-> <<>>, threads |-> 1, all |-> FALSE,
               http |-> FALSE, socks4 |-> FALSE, socks5 |-> FALSE]
    /\ pc = "off"
    /\ protocols = <<>>
    /\ proxies = <<>>
    /\ i = 0
    /\ tasks = <<>>
    /\ all_results = <<>>
    /\ outfile = NotOpened
    /\ progress = <<>>
    /\ summary = NoSummary
    /\ returned = <<>>
    /\ abandoned = {}
    /\ mock = NoMock
    /\ PCheckIdle

\* get_country_codes up to its loop
GetCountryCodes ==
    /\ ip_pc = "call"
    /\ ip_pc' = IF BatchCount > 0 THEN "batches" ELSE "returned"
    /\ UNCHANGED <<ip_data, ip_batch_size, ip_batch, ip_results>>
    /\ UNCHANGED <<checkerVars, pcheckVars>>

\* the answers of ip-api.com to a batch, one for each address in the order
\* sent, with item['original'] set from ip_mapping; entry is the position in
\* ip_data of the address the answer was asked for (not in the program)
BatchResults(b) ==
    LET entries == BatchEntries(b)
    IN  [k \in DOMAIN entries |->
            LET clean_ip == clean_ips[entries[k]]
            IN  [query |-> clean_ip,
                 countryCode |-> "US",
                 original |-> Get(ip_mapping, clean_ip, clean_ip),
                 entry |-> entries[k]]]

\* one turn of get_country_codes' loop: the batch is posted; the answers of
\* a status 200 are added to results, another status or an exception is
\* printed and the batch is left out
PostBatch(resp) ==
    /\ ip_pc = "batches"
    /\ ip_results' = IF resp = "ok" THEN ip_results \o BatchResults(ip_batch)
                      ELSE ip_results
    /\ ip_batch' = ip_batch + 1
    /\ ip_pc' = IF ip_batch' < BatchCount THEN "batches" ELSE "returned"
    /\ UNCHANGED <<ip_data, ip_batch_size>>
    /\ UNCHANGED <<checkerVars, pcheckVars>>

NextCountry ==
    \/ GetCountryCodes
    \/ \E resp \in BatchResponses : PostBatch(resp)

CountrySpec == InitCountry /\ [][NextCountry]_vars

----------------------------------------------------------------------------
(* p_check.good_batch.py *)

\* process_proxy_list's batch_size = 1000 and check_proxies' max_retries = 3:
\* main passes neither
DefaultBatchSize == 1000
DefaultMaxRetries == 3

\* what a POST of check_proxies can do: an answer that is JSON, a
\* RequestException (raise_for_status included), an answer that is not JSON
PostOutcomes == {"ok", "fail", "badjson"}

\* the list the API answers for batch number b: one result, marked b
AnswerFor(b) == <<[batch |-> b]>>

RECURSIVE Attempts(_, _, _, _, _)
Attempts(b, max_retries, pattern, attempt, slept) ==
    IF attempt >= max_retries
    THEN [kind |-> "None", posts |-> attempt, slept |-> slept]
    ELSE IF pattern[attempt + 1] = "ok"
    THEN [kind |-> "list", value |-> AnswerFor(b), posts |-> attempt + 1,
          slept |-> slept]
    ELSE IF pattern[attempt + 1] = "badjson"
    THEN [kind |-> "raised", posts |-> attempt + 1, slept |-> slept]
    ELSE IF attempt < max_retries - 1
    THEN Attempts(b, max_retries, pattern, attempt + 1, slept \cup {attempt})
    ELSE [kind |-> "list", value |-> <<>>, posts |-> attempt + 1,
          slept |-> slept]

\* check_proxies(batch, api_url, session, max_retries) for batch number b
check_proxies(b, max_retries, pattern) ==
    Attempts(b, max_retries, pattern, 0, {})

\* proxy_checker_local_slow.py is not running
CheckerIdle ==
    /\ args = [input_file |-> <<>>, threads |-> 1, all |-> FALSE,
               http |-> FALSE, socks4 |-> FALSE, socks5 |-> FALSE]
    /\ pc = "off"
    /\ protocols = <<>>
    /\ proxies = <<>>
    /\ i = 0
    /\ tasks = <<>>
    /\ all_results = <<>>
    /\ outfile = NotOpened
    /\ progress = <<>>
    /\ summary = NoSummary
    /\ returned = <<>>
    /\ abandoned = {}
    /\ mock = NoMock

\* a call of check_proxies for batch 0, with max_retries and with what each
\* POST will do drawn from the bounded sets
InitRetry ==
    /\ rt_max \in 0..MaxRetries
    /\ rt_pattern \in [1..MaxRetries -> PostOutcomes]
    /\ rt_result = NotCalled
    /\ pk_pc = "off"
    /\ pk_len = 0
    /\ pk_resume = FALSE
    /\ pk_i = 0
    /\ pk_all_results = <<>>
    /\ pk_previous = <<>>
    /\ pk_progress = NoFile
    /\ pk_output = NoFile
    /\ pk_runs = 0
    /\ pk_got = <<>>
    /\ CheckerIdle
    /\ CountryIdle

\* the call
CallCheckProxies ==
    /\ rt_result = NotCalled
    /\ rt_pattern # <<>>
    /\ rt_result' = check_proxies(0, rt_max, rt_pattern)
    /\ UNCHANGED <<rt_max, rt_pattern, pk_pc, pk_len, pk_resume, pk_i,
                   pk_all_results, pk_previous, pk_progress, pk_output,
                   pk_runs, pk_got>>
    /\ UNCHANGED <<checkerVars, countryVars>>

RetrySpec == InitRetry /\ [][CallCheckProxies]_vars

\* the lengths of the lists: none, one proxy, full batches, a batch begun
ListLengths ==
    {0, 1} \cup {b * DefaultBatchSize : b \in 1..MaxBatches}
           \cup {(b - 1) * DefaultBatchSize + 1 : b \in 1..MaxBatches}

\* len(chunk_list(proxy_list, batch_size))
NBatches == (pk_len + DefaultBatchSize - 1) \div DefaultBatchSize

\* the first run on a list, in a directory without progress.json
InitResume ==
    /\ pk_pc = "start"
    /\ pk_len \in ListLengths
    /\ pk_resume \in BOOLEAN
    /\ pk_i = 0
    /\ pk_all_results = <<>>
    /\ pk_previous = <<>>
    /\ pk_progress = NoFile
    /\ pk_output = NoFile
    /\ pk_runs = 1
    /\ pk_got = [b \in 0..(MaxBatches - 1) |-> "none"]
    /\ rt_max = 0
    /\ rt_pattern = <<>>
    /\ rt_result = NotCalled
    /\ CheckerIdle
    /\ CountryIdle

\* load_progress() if args.resume else (0, [])
load_progress ==
    IF pk_resume /\ pk_progress.exists
    THEN <<pk_progress.batch, pk_progress.results>>
    ELSE <<0, <<>>>>

\* main up to the loop of process_proxy_list: all_results = [] whatever was
\* loaded, and the loop starts at batches[resume_from:]
PkStart ==
    /\ pk_pc = "start"
    /\ pk_i' = load_progress[1]
    /\ pk_previous' = load_progress[2]
    /\ pk_all_results' = <<>>
    /\ pk_pc' = IF pk_i' < NBatches THEN "check" ELSE "finish"
    /\ UNCHANGED <<pk_len, pk_resume, pk_progress, pk_output, pk_runs, pk_got,
                   rt_max, rt_pattern, rt_result>>
    /\ UNCHANGED <<checkerVars, countryVars>>

\* results = check_proxies(batch, api_url, session);
\* all_results.extend(results).  An exception that leaves check_proxies,
\* or extend(None), ends the run.
PkCheckBatch ==
    /\ pk_pc = "check"
    /\ \E pattern \in [1..DefaultMaxRetries -> PostOutcomes] :
         LET r == check_proxies(pk_i, DefaultMaxRetries, pattern)
         IN  IF r.kind = "list"
             THEN /\ pk_all_results' = pk_all_results \o r.value
                  /\ pk_got' = [pk_got EXCEPT ![pk_i] =
                                    IF r.value = <<>> THEN "gave up"
                                    ELSE "answered"]
                  /\ pk_pc' = "save"
             ELSE /\ UNCHANGED <<pk_all_results, pk_got>>
                  /\ pk_pc' = "crashed"
    /\ UNCHANGED <<pk_len, pk_resume, pk_i, pk_previous, pk_progress,
                   pk_output, pk_runs, rt_max, rt_pattern, rt_result>>
    /\ UNCHANGED <<checkerVars, countryVars>>

\* save_progress(i + 1, all_results), and the loop goes on
PkSaveProgress ==
    /\ pk_pc = "save"
    /\ pk_progress' = [exists |-> TRUE, batch |-> pk_i + 1,
                        results |-> pk_all_results]
    /\ pk_i' = pk_i + 1
    /\ pk_pc' = IF pk_i' < NBatches THEN "check" ELSE "finish"
    /\ UNCHANGED <<pk_len, pk_resume, pk_all_results, pk_previous, pk_output,
                   pk_runs, pk_got, rt_max, rt_pattern, rt_result>>
    /\ UNCHANGED <<checkerVars, countryVars>>

\* main after process_proxy_list: results = previous_results + results are
\* written and progress.json is removed
PkFinish ==
    /\ pk_pc = "finish"
    /\ pk_output' = [exists |-> TRUE, results |-> pk_previous \o pk_all_results]
    /\ pk_progress' = NoFile
    /\ pk_pc' = "done"
    /\ UNCHANGED <<pk_len, pk_resume, pk_i, pk_all_results, pk_previous,
                   pk_runs, pk_got, rt_max, rt_pattern, rt_result>>
    /\ UNCHANGED <<checkerVars, countryVars>>

\* the run is interrupted: nothing catches KeyboardInterrupt, the files stay
\* as they are
PkInterrupt ==
    /\ pk_pc \in {"start", "check", "save", "finish"}
    /\ pk_pc' = "killed"
    /\ UNCHANGED <<pk_len, pk_resume, pk_i, pk_all_results, pk_previous,
                   pk_progress, pk_output, pk_runs, pk_got,
                   rt_max, rt_pattern, rt_result>>
    /\ UNCHANGED <<checkerVars, countryVars>>

\* the script is started again on the same list with --resume
PkRestart ==
    /\ pk_pc \in {"killed", "crashed"}
    /\ pk_runs < MaxRuns
    /\ pk_runs' = pk_runs + 1
    /\ pk_resume' = TRUE
    /\ pk_pc' = "start"
    /\ pk_i' = 0
    /\ pk_all_results' = <<>>
    /\ pk_previous' = <<>>
    /\ UNCHANGED <<pk_len, pk_progress, pk_output, pk_got,
                   rt_max, rt_pattern, rt_result>>
    /\ UNCHANGED <<checkerVars, countryVars>>

NextResume ==
    \/ PkStart
    \/ PkCheckBatch
    \/ PkSaveProgress
    \/ PkFinish
    \/ PkInterrupt
    \/ PkRestart

ResumeSpec == InitResume /\ [][NextResume]_vars

----------------------------------------------------------------------------
(* Vocabulary of the properties *)

\* the run has gone through every batch
LoopOver == pc \in {"save", "done"}

\* the returns of check_proxy for line n and protocol p
ReturnsOf(n, p) ==
    {m \in DOMAIN returned : returned[m].line = n /\ returned[m].protocol = p}

\* the entries of all_results for line n and protocol p
EntriesOf(n, p) ==
    {m \in DOMAIN all_results :
        all_results[m].line = n /\ all_results[m].result.protocol = p}

\* the position in its line's tests of the probe line n has in flight, 0 if none
InFlightAt(n) ==
    LET js == {j \in ProbesInFlight : tasks[j].line = n}
    IN  IF js = {} THEN 0 ELSE tasks[CHOOSE j \in js : TRUE].k

\* the WorkItems of the run: <<n, q, p>> for line n of proxies and the q-th
\* protocol to test for it, p
WorkItems ==
    UNION {LET tests == TestsOf(proxies[n], protocols)
           IN  {<<n, q, tests[q]>> : q \in 1..Len(tests)} :
              n \in 1..Len(proxies)}

ProtocolOf(w) == w[3]

\* check_proxy has been called for WorkItem w
Started(w) == ReturnsOf(w[1], ProtocolOf(w)) # {} \/ InFlightAt(w[1]) = w[2]

----------------------------------------------------------------------------
(* C1 *)

\* C1, as claimed: the number of probes that have started and not returned
\* is at most --threads.  The code runs len(proxies) // threads lines at a
\* time, which exceeds threads as soon as len(proxies) >= threads * (threads + 1).
C1_InFlightWithinThreads == Cardinality(ProbesInFlight) <= args.threads

----------------------------------------------------------------------------
(* C2 *)

\* C2, as claimed: after the run has gone through every batch, every WorkItem
\* has exactly one outcome in all_results, whether its probe worked or not.
C2_EveryOutcomeRetained ==
    LoopOver =>
        \A w \in WorkItems : Cardinality(EntriesOf(w[1], ProtocolOf(w))) = 1

\* C2, amended: after the run has gone through every batch, check_proxy has
\* returned exactly one outcome for every WorkItem, and all_results holds one
\* entry for each WorkItem whose probe worked and none for a WorkItem whose
\* probe failed: process_proxy drops the failed outcomes.
C2_WorkingOutcomesRetained ==
    LoopOver =>
        \A w \in WorkItems :
            LET rs == ReturnsOf(w[1], ProtocolOf(w))
                es == EntriesOf(w[1], ProtocolOf(w))
            IN  /\ Cardinality(rs) = 1
                /\ \A m \in rs :
                     /\ returned[m].success => Cardinality(es) = 1
                     /\ ~returned[m].success => es = {}
                     /\ \A e \in es : all_results[e].result = returned[m].result

\* a finished run with a probe that failed and a probe that worked
C2_Witness ==
    /\ pc = "done"
    /\ \E m \in DOMAIN returned : ~returned[m].success
    /\ \E m \in DOMAIN returned : returned[m].success
    /\ Len(all_results) < Len(returned)

----------------------------------------------------------------------------
(* C3 *)

\* the scheme a line starts with, as written
SchemeHint(line) ==
    LET ns == {n \in 1..Len(SchemeChars) :
                  HasPrefix(line, SchemeChars[n] \o <<":", "/", "/">>)}
    IN  IF ns = {} THEN None ELSE SchemeName[Min(ns)]

\* the priority table: -all, then the protocol flags, then the hint, then all
SelectorTable(line) ==
    LET cli == {p \in {"http", "socks4", "socks5"} :
                   \/ p = "http" /\ args.http
                   \/ p = "socks4" /\ args.socks4
                   \/ p = "socks5" /\ args.socks5}
    IN  IF args.all THEN {"http", "socks4", "socks5"}
        ELSE IF cli # {} THEN cli
        ELSE IF SchemeHint(line) # None THEN {SchemeHint(line)}
        ELSE {"http", "socks4", "socks5"}

ProbedFor(n) == {returned[m].protocol : m \in {x \in DOMAIN returned : returned[x].line = n}}

\* C3: once the run has gone through every batch, the protocols probed for a
\* well-formed line are those of the priority table: -all gives http, socks4
\* and socks5; else the protocol flags given; else the scheme of the line, as
\* written; else http, socks4 and socks5.
C3_SelectorPriority ==
    LoopOver =>
        \A n \in 1..Len(proxies) :
            RegexMatch(proxies[n]).ok => ProbedFor(n) = SelectorTable(proxies[n])

\* a finished run where a protocol flag overrode the scheme of the line
C3_Witness ==
    /\ pc = "done"
    /\ ~args.all /\ args.http /\ ~args.socks4 /\ ~args.socks5
    /\ \E n \in 1..Len(proxies) :
         SchemeHint(proxies[n]) = "socks5" /\ ProbedFor(n) = {"http"}

----------------------------------------------------------------------------
(* C4 *)

\* C4, as claimed: a WorkItem that has not started waits only for the
\* ceiling: while one is waiting, --threads probes are in flight.
C4_WaitsOnlyForCeiling ==
    pc = "gather" =>
        ((\E w \in WorkItems : ~Started(w))
            => Cardinality(ProbesInFlight) >= args.threads)

\* C4, amended: a WorkItem that has not started waits for an earlier protocol
\* of its own line, whose probe is in flight, or belongs to a line of a later
\* batch, which starts when every probe of the current batch has returned.
\* The lines of one batch never wait for each other.
C4_WaitsForOwnLineOrBatch ==
    pc = "gather" =>
        \A w \in WorkItems :
            ~Started(w) =>
                \/ w[1] > i + Max2(1, Len(proxies) \div args.threads)
                \/ /\ InFlightAt(w[1]) > 0
                   /\ InFlightAt(w[1]) < w[2]

\* fewer probes in flight than --threads while a WorkItem waits for the
\* probe of an earlier protocol of its line
C4_Witness ==
    /\ pc = "gather"
    /\ Cardinality(ProbesInFlight) < args.threads
    /\ \E w \in WorkItems :
         ~Started(w) /\ InFlightAt(w[1]) > 0 /\ InFlightAt(w[1]) < w[2]

----------------------------------------------------------------------------
(* C5 *)

\* the calls of check_proxy for line n and protocol p, returned or in flight
CallsOf(n, p) ==
    Cardinality(ReturnsOf(n, p))
    + (IF \E j \in ProbesInFlight :
            tasks[j].line = n /\ tasks[j].tests[tasks[j].k] = p
       THEN 1 ELSE 0)

\* C5: check_proxy is never called twice for the same line and protocol, a
\* failed probe included; once the run has gone through every batch it has
\* been called exactly once for every WorkItem.
C5_ProbedOnce ==
    /\ \A m \in DOMAIN returned : CallsOf(returned[m].line, returned[m].protocol) = 1
    /\ LoopOver => \A w \in WorkItems : CallsOf(w[1], ProtocolOf(w)) = 1

\* a probe failed and the run went on to the end
C5_Witness ==
    /\ pc = "done"
    /\ \E m \in DOMAIN returned : ~returned[m].success
    /\ Len(returned) >= 2

----------------------------------------------------------------------------
(* C6 *)

ErrorKinds ==
    {"Timeout", "ConnectionRefused", "HandshakeFailure", "BadResponse", "Unknown"}

\* what the network can do to a probe that is a fault: an exception, a
\* status other than 200, a body that is not JSON
Faults ==
    {resp \in Responses :
        IF resp.kind = "raise" THEN TRUE ELSE resp.status # 200 \/ ~resp.json}

\* C6, as claimed: every failed outcome check_proxy returned carries an error
\* kind among Timeout, ConnectionRefused, HandshakeFailure, BadResponse and
\* Unknown, and no fault has left check_proxy.
C6_FailuresCarryErrorKind ==
    /\ pc # "crashed"
    /\ \A m \in DOMAIN returned :
         ~returned[m].success =>
             /\ "error" \in DOMAIN returned[m].result
             /\ returned[m].result["error"] \in ErrorKinds

\* C6, amended: every fault inside a probe (an exception of session.get or
\* response.json(), a status other than 200) makes check_proxy return
\* success = False with the result {proxy, protocol, status: "Failed"}, which
\* carries no error kind; nothing leaves check_proxy, and the task goes on to
\* its next protocol.
C6_FaultsBecomeFailed ==
    [][\A j \in DOMAIN tasks, resp \in Faults :
          ProbeReturns(j, resp) =>
              /\ pc' = "gather"
              /\ Len(returned') = Len(returned) + 1
              /\ tasks'[j].k = tasks[j].k + 1
              /\ LET r == returned'[Len(returned')]
                 IN  /\ ~r.success
                     /\ r.result = [proxy |-> tasks[j].proxy,
                                    protocol |-> tasks[j].tests[tasks[j].k],
                                    status |-> "Failed"]]_vars

\* a probe failed and the task went on to probe its next protocol
C6_Witness ==
    \E m \in DOMAIN returned :
        /\ ~returned[m].success
        /\ DOMAIN returned[m].result = {"proxy", "protocol", "status"}
        /\ \E m2 \in DOMAIN returned : m2 > m /\ returned[m2].line = returned[m].line

----------------------------------------------------------------------------
(* C7 *)

\* C7, as claimed: after a cancellation the output holds the outcomes that had
\* completed.
C7_CompletedOutcomesReported ==
    pc = "interrupted" =>
        /\ outfile.lines = OutputLines(all_results)
        /\ \A a \in abandoned : ReturnsOf(a.line, a.protocol) = {}

\* C7, amended: on a cancellation before save_results has opened the output
\* file, the probes in flight are abandoned without producing outcomes and
\* main never reaches save_results: the output file is not opened and no
\* summary is printed, so the outcomes that had completed are reported only
\* in the progress lines already printed.
C7_CancelDiscardsResults ==
    pc = "interrupted" =>
        /\ ~outfile.opened
        /\ outfile.lines = <<>>
        /\ ~summary.printed
        /\ tasks = <<>>
        /\ \A a \in abandoned : ReturnsOf(a.line, a.protocol) = {}

\* a run cancelled with working results accumulated and a probe in flight
C7_Witness ==
    /\ pc = "interrupted"
    /\ WorkingCount(all_results) > 0
    /\ abandoned # {}

----------------------------------------------------------------------------
(* C8 *)

\* check_proxy has been called
SomeProbeStarted == returned # <<>> \/ ProbesInFlight # {}

\* C8, as claimed: no probe starts before the input file has been read and
\* the output file has been found writable.
C8_NoProbeBeforeSetup ==
    SomeProbeStarted =>
        /\ pc \notin {"import", "args", "read", "aborted", "exit1"}
        /\ outfile.opened

\* C8, amended: an input file that cannot be read ends main before any probe
\* starts, and no probe starts before the input file has been read.  The
\* output file is opened only by save_results, after every probe of the run
\* has returned: when it cannot be opened the error leaves main with every
\* WorkItem probed, nothing written and no summary printed.
C8_AbortPoints ==
    /\ pc \in {"import", "args", "read", "aborted", "exit1"} => ~SomeProbeStarted
    /\ pc = "crashed" =>
         /\ \A w \in WorkItems : Cardinality(ReturnsOf(w[1], ProtocolOf(w))) = 1
         /\ ProbesInFlight = {}
         /\ ~outfile.opened
         /\ ~summary.printed
    /\ outfile.opened => pc = "done"

\* the output file could not be opened, after probes had returned
C8_Witness ==
    /\ pc = "crashed"
    /\ returned # <<>>

----------------------------------------------------------------------------
(* C9 *)

\* the position in returned of the return that gave entry e of all_results
ReturnPos(e) ==
    CHOOSE m \in DOMAIN returned :
        /\ returned[m].line = all_results[e].line
        /\ returned[m].protocol = all_results[e].result.protocol

\* the position of entry e's protocol among the protocols tested for its line
TestPos(e) ==
    LET tests == TestsOf(proxies[all_results[e].line], protocols)
    IN  CHOOSE q \in 1..Len(tests) : tests[q] = all_results[e].result.protocol

\* C9, as claimed: all_results is in completion order.
C9_CompletionOrder ==
    \A a, b \in DOMAIN all_results : a < b => ReturnPos(a) < ReturnPos(b)

\* C9, amended: all_results is in input order, whatever the order in which
\* the probes completed: the entries of an earlier line of the input come
\* first, and the entries of one line are in the order its protocols were
\* tested.
C9_InputOrder ==
    \A a, b \in DOMAIN all_results :
        a < b =>
            \/ all_results[a].line < all_results[b].line
            \/ /\ all_results[a].line = all_results[b].line
               /\ TestPos(a) < TestPos(b)

\* two entries of all_results whose probes completed in the opposite order
C9_Witness ==
    \E a, b \in DOMAIN all_results : a < b /\ ReturnPos(a) > ReturnPos(b)

----------------------------------------------------------------------------
(* C10 *)

\* host:port as written in a line: what follows scheme://, or the line
HostPortAsWritten(line) ==
    LET ns == {n \in 1..Len(SchemeChars) :
                  HasPrefix(line, SchemeChars[n] \o <<":", "/", "/">>)}
    IN  IF ns = {} THEN line
        ELSE SubSeq(line, Len(SchemeChars[Min(ns)]) + 4, Len(line))

Normalized(scheme) == IF scheme = "https" THEN "http" ELSE scheme

\* C10, as claimed: every probe is made for host:port as written in its line
\* and, without protocol flags, a line with a scheme is probed and reported
\* under that scheme with https normalized to http, a line without a scheme
\* under http, socks4 and socks5.
C10_HintNormalized ==
    \A m \in DOMAIN returned :
        LET line == proxies[returned[m].line]
        IN  /\ returned[m].result.proxy = HostPortAsWritten(line)
            /\ protocols = <<>> =>
                 /\ returned[m].result.protocol = returned[m].protocol
                 /\ IF SchemeHint(line) = None
                    THEN returned[m].protocol \in Range(AllThree)
                    ELSE returned[m].protocol = Normalized(SchemeHint(line))

----------------------------------------------------------------------------
(* C11 *)

\* host:port as the input grammar has it: a host without colon, a colon, and
\* a port of digits
IsHostPort(t) ==
    \E k \in 2..(Len(t) - 1) :
        /\ t[k] = ":"
        /\ \A m \in 1..(k - 1) : t[m] # ":"
        /\ \A m \in (k + 1)..Len(t) : t[m] \in Digits

\* a line of the grammar: [scheme://]host:port, the scheme in lower case
WellFormed(line) == IsHostPort(HostPortAsWritten(line))

Malformed(n) == ~WellFormed(proxies[n])

\* the (host:port, protocol) pairs probed so far, with the number of probes
ProbedPairs ==
    LET pairs == {<<returned[m].result.proxy, returned[m].protocol>> :
                     m \in DOMAIN returned}
    IN  [pr \in pairs |->
            Cardinality({m \in DOMAIN returned :
                <<returned[m].result.proxy, returned[m].protocol>> = pr})]

\* the WorkItems of a file, without its malformed lines, as the priority
\* table gives them
ExpectedPairs ==
    LET good == SelectSeq(proxies, WellFormed)
        pairs == UNION {{<<HostPortAsWritten(good[n]), p>> :
                            p \in SelectorTable(good[n])} : n \in 1..Len(good)}
    IN  [pr \in pairs |->
            Cardinality({n \in 1..Len(good) :
                /\ HostPortAsWritten(good[n]) = pr[1]
                /\ pr[2] \in SelectorTable(good[n])})]

\* C11: a malformed line is skipped and the run goes on: no probe is ever
\* made or in flight for it and nothing is reported for it, and when the run
\* leaves the loop for save_results the probes made are those of the file
\* without its malformed lines; the run does not crash in the loop.
C11_MalformedSkipped ==
    /\ \A n \in {returned[m].line : m \in DOMAIN returned}
                \cup {tasks[j].line : j \in ProbesInFlight}
                \cup {all_results[e].line : e \in DOMAIN all_results} :
         ~Malformed(n)
    /\ pc = "save" => ProbedPairs = ExpectedPairs
    /\ pc = "crashed" => i >= Len(proxies)

\* the run of 1.2.3.4:8080, http://5.6.7.8:3128, bad-line without flags has
\* finished: four probes, three for 1.2.3.4:8080 and one for 5.6.7.8:3128
C11_Witness ==
    /\ pc = "done"
    /\ args.input_file = ScenarioFile
    /\ Malformed(3)
    /\ Len(returned) = 4
    /\ ProbedFor(1) = {"http", "socks4", "socks5"}
    /\ ProbedFor(2) = {"http"}
    /\ ProbedFor(3) = {}
    /\ summary.printed

----------------------------------------------------------------------------
(* C12 *)

\* the lines of the input file that are not blank
NonBlankLines ==
    {n \in DOMAIN args.input_file :
        \E k \in DOMAIN args.input_file[n] : args.input_file[n][k] \notin Whitespace}

MalformedLines == {n \in 1..Len(proxies) : Malformed(n)}

\* C12, as claimed: the summary reports a count of malformed lines equal to
\* the number of malformed lines of the input, and the total of checked
\* candidates leaves the malformed lines out.
C12_MalformedCounted ==
    pc = "done" =>
        /\ Get(summary, "malformed", 0) = Cardinality(MalformedLines)
        /\ summary.total = Len(proxies) - Cardinality(MalformedLines)

\* C12, amended: a line with no port, a port that is not a number or no host
\* does not match (looked at when main enters its loop, the file read) and
\* is skipped without a trace: the run keeps no count of
\* malformed lines, the summary has a total, a working count and the counts
\* by protocol only, and its total, like the total of every progress line, is
\* the number of non-blank lines of the file, malformed lines included.
C12_MalformedUncounted ==
    /\ pc = "loop" =>
         /\ \A n \in 1..Len(proxies) :
              Malformed(n) => ~RegexMatch(proxies[n]).ok
         /\ \A l \in {LineNoPort, LineAlphaPort, LineNoHost, LineBad} :
              ~WellFormed(l) /\ ~RegexMatch(l).ok
    /\ \A k \in DOMAIN progress : progress[k].total = Cardinality(NonBlankLines)
    /\ pc = "done" =>
         /\ DOMAIN summary = {"printed", "total", "working", "by_protocol"}
         /\ summary.total = Cardinality(NonBlankLines)

\* a finished run whose file has a malformed line and a line that was
\* probed: the total counts both
C12_Witness ==
    /\ pc = "done"
    /\ MalformedLines # {}
    /\ returned # <<>>
    /\ summary.total > Cardinality(1..Len(proxies) \ MalformedLines)

----------------------------------------------------------------------------
(* C13 *)

\* the probes of lines 1..n that returned success
SuccessesUpTo(n) ==
    {m \in DOMAIN returned : returned[m].success /\ returned[m].line <= n}

\* the sum of the counts of a table of counts
RECURSIVE SumOver(_, _)
SumOver(f, S) ==
    IF S = {} THEN 0
    ELSE LET x == CHOOSE y \in S : TRUE IN f[x] + SumOver(f, S \ {x})

\* C13: the working count of every progress line is the number of probes of
\* the lines processed so far that returned success; in the summary the
\* working count is the number of probes that returned success, the count
\* of each protocol is the number of those made under it, and the counts by
\* protocol add up to the working count.
C13_WorkingCounts ==
    /\ \A k \in DOMAIN progress :
         progress[k].working = Cardinality(SuccessesUpTo(progress[k].done))
    /\ pc = "done" =>
         /\ summary.working = Cardinality(SuccessesUpTo(Len(proxies)))
         /\ \A p \in DOMAIN summary.by_protocol :
              summary.by_protocol[p] =
                  Cardinality({m \in SuccessesUpTo(Len(proxies)) :
                                  returned[m].protocol = p})
         /\ SumOver(summary.by_protocol, DOMAIN summary.by_protocol)
              = summary.working

\* a finished run of two batches with a failed probe and two probes of one
\* protocol that worked
C13_Witness ==
    /\ pc = "done"
    /\ Len(progress) >= 2
    /\ \E m \in DOMAIN returned : ~returned[m].success
    /\ \E p \in DOMAIN summary.by_protocol : summary.by_protocol[p] >= 2
    /\ progress[1].working < summary.working

----------------------------------------------------------------------------
(* C14 *)

\* the lines of the output file for host:port hp under protocol p
LinesFor(hp, p) ==
    {k \in DOMAIN outfile.lines :
        outfile.lines[k][1] = p /\ outfile.lines[k][3] = hp}

\* the probes of host:port hp under protocol p that returned success
SuccessesFor(hp, p) ==
    {m \in DOMAIN returned :
        /\ returned[m].success
        /\ returned[m].protocol = p
        /\ returned[m].result.proxy = hp}

\* C14: when the run is done the output file has one line for each probe
\* that returned success and no other line: a probe that failed has no
\* line, a line of the input whose probes all failed has none, and when
\* every probe worked the file has one line for each WorkItem.
C14_OneLinePerWorking ==
    pc = "done" =>
        /\ Len(outfile.lines) = Cardinality(SuccessesUpTo(Len(proxies)))
        /\ \A m \in DOMAIN returned :
             Cardinality(LinesFor(returned[m].result.proxy, returned[m].protocol))
                 = Cardinality(SuccessesFor(returned[m].result.proxy,
                                            returned[m].protocol))
        /\ \A k \in DOMAIN outfile.lines :
             SuccessesFor(outfile.lines[k][3], outfile.lines[k][1]) # {}
        /\ (\A m \in DOMAIN returned : returned[m].success)
             => Len(outfile.lines) = Cardinality(WorkItems)

\* a finished run where the probes of one line all failed, the probes of
\* another all worked, and the file has the lines of the second only
C14_Witness ==
    /\ pc = "done"
    /\ \E n, q \in 1..Len(proxies) :
         /\ ProbedFor(n) # {} /\ ProbedFor(q) # {}
         /\ \A m \in DOMAIN returned : returned[m].line = n => ~returned[m].success
         /\ \A m \in DOMAIN returned : returned[m].line = q => returned[m].success
         /\ HostPortAsWritten(proxies[n]) # HostPortAsWritten(proxies[q])
         /\ \A k \in DOMAIN outfile.lines :
              outfile.lines[k][3] # HostPortAsWritten(proxies[n])
    /\ Len(outfile.lines) >= 2

----------------------------------------------------------------------------
(* C15 *)

\* the body of the response entry e of all_results was built from
BodyOf(e) == returned[ReturnPos(e)].data

\* C15, as claimed: the output line of a working result shows the country of
\* the response body, or Unknown when the body had no country, and the ping
\* in ms, or N/A when there is none.  A body without country is stored as
\* country '' by check_proxy, and save_results' default never applies.
C15_CountryOrUnknown ==
    pc = "done" =>
        \A e \in DOMAIN all_results :
            LET r == all_results[e].result
                line == outfile.lines[e]
            IN  /\ line[1] = r.protocol /\ line[3] = r.proxy
                /\ line[5] = Get(BodyOf(e), "country", "Unknown")
                /\ line[7] = Get(r, "ping", "N/A")

----------------------------------------------------------------------------
(* C16 *)

Terminated == pc \in {"exit1", "aborted", "crashed", "interrupted", "done"}

\* the last return of check_proxy
LastReturned == returned[Len(returned)]

\* C16, as claimed: the probe of a proxy that never responds returns, when
\* the timeout expires, a failed outcome tagged error = Timeout.
C16_TimeoutTagged ==
    [][\A j \in DOMAIN tasks :
          ProbeReturns(j, NeverAnswers) =>
              /\ ~LastReturned'.success
              /\ Get(LastReturned'.result, "error", None) = "Timeout"]_vars

\* C16, amended: a probe never hangs.  The probe of a proxy that never
\* responds returns when the total timeout of its session expires, with the
\* failed outcome {proxy, protocol, status: Failed} that says nothing of a
\* timeout; the probes in flight eventually have all returned, unless the
\* run is interrupted, the run eventually ends, and it ends done or at the write
\* of the output file only after every WorkItem's probe has returned.
C16_ProbesReturn ==
    /\ [][\A j \in DOMAIN tasks :
            ProbeReturns(j, NeverAnswers) =>
                /\ ~LastReturned'.success
                /\ LastReturned'.result =
                       [proxy |-> tasks[j].proxy,
                        protocol |-> tasks[j].tests[tasks[j].k],
                        status |-> "Failed"]]_vars
    /\ (ProbesInFlight # {}) ~> (ProbesInFlight = {})
    /\ <>Terminated
    /\ [](pc \in {"done", "crashed"} =>
            \A w \in WorkItems : ReturnsOf(w[1], ProtocolOf(w)) # {})

\* a finished run against a prober with a proxy that never responds and a
\* proxy that works: the probe of the first returned a failed outcome,
\* another probe followed it, the batch and the run ended
C16_Witness ==
    /\ pc = "done"
    /\ mock.on
    /\ \E m \in DOMAIN returned :
         /\ ~returned[m].success
         /\ <<returned[m].result.proxy, returned[m].protocol>> \notin mock.works
         /\ m < Len(returned)
    /\ \E m \in DOMAIN returned : returned[m].success
    /\ Len(progress) >= 1

----------------------------------------------------------------------------
(* C17 *)

\* C17: an outcome check_proxy returned has a ping exactly when it is a
\* success; a success has the address and the country the response gave as
\* well, a failed outcome has its proxy, protocol and status only.
C17_PingIffSuccess ==
    \A m \in DOMAIN returned :
        LET r == returned[m].result
        IN  /\ returned[m].success <=> "ping" \in DOMAIN r
            /\ returned[m].success =>
                 /\ DOMAIN r = {"proxy", "protocol", "ip", "country", "ping", "status"}
                 /\ r.status = "Working"
            /\ ~returned[m].success =>
                 /\ DOMAIN r = {"proxy", "protocol", "status"}
                 /\ r.status = "Failed"

\* check_proxy has returned a success and a failed outcome
C17_Witness ==
    /\ \E m \in DOMAIN returned : returned[m].success
    /\ \E m \in DOMAIN returned : ~returned[m].success

----------------------------------------------------------------------------
(* C18 *)

\* the WorkItems of the file that work with the static prober, under
\* protocol p: <<n, p>> for line n
ExpectedWorking(p) ==
    {n \in 1..Len(proxies) :
        /\ WellFormed(proxies[n])
        /\ p \in SelectorTable(proxies[n])
        /\ <<HostPortAsWritten(proxies[n]), p>> \in mock.works}

ProtocolNames == {"http", "https", "socks4", "socks5"}

\* C18: against a static prober the counts of a finished run are a function
\* of the input, the protocol selection and the prober's table, whatever
\* the order in which the probes completed: the working count is the
\* number of WorkItems the table says work, and the count of each protocol
\* the number of those under it.  Two runs on the same input and prober
\* therefore report the same counts.
C18_CountsDetermined ==
    (pc = "done" /\ mock.on) =>
        /\ summary.working =
               SumOver([p \in ProtocolNames |-> Cardinality(ExpectedWorking(p))],
                       ProtocolNames)
        /\ \A p \in ProtocolNames :
               Get(summary.by_protocol, p, 0) = Cardinality(ExpectedWorking(p))
        /\ DOMAIN summary.by_protocol \subseteq ProtocolNames

\* a finished run against a static prober where the probes of one batch
\* completed out of input order, with a probe that worked on a later line
C18_Witness ==
    /\ pc = "done"
    /\ mock.on
    /\ summary.working >= 1
    /\ \E a, b \in DOMAIN returned :
         /\ a < b
         /\ returned[a].line > returned[b].line
         /\ returned[a].success
         /\ ~returned[b].success

----------------------------------------------------------------------------
(* C19 *)

\* a character in lower case
Lower(c) ==
    CASE c = "H" -> "h" [] c = "T" -> "t" [] c = "P" -> "p" [] c = "S" -> "s"
      [] c = "O" -> "o" [] c = "C" -> "c" [] c = "K" -> "k" [] OTHER -> c

\* the scheme of a line, whatever its case: None without a scheme
SchemeAnyCase(line) == SchemeHint([k \in DOMAIN line |-> Lower(line[k])])

\* a line of the grammar with the scheme matched whatever its case
WellFormedAnyCase(line) ==
    LET lowered == [k \in DOMAIN line |-> Lower(line[k])]
    IN  /\ SchemeHint(lowered) # None
        /\ IsHostPort(HostPortAsWritten(lowered))

\* C19, as claimed: a line whose scheme is http, https, socks4 or socks5 in
\* any case, followed by host:port, is a valid candidate with that scheme as
\* its hint: once the run has gone through every batch it has been probed,
\* and without protocol flags under its scheme (or http for https).  The
\* pattern is matched case-sensitively: HTTP://a:8 does not match and is
\* skipped as malformed.
C19_SchemeAnyCase ==
    LoopOver =>
        \A n \in 1..Len(proxies) :
            WellFormedAnyCase(proxies[n]) =>
                /\ RegexMatch(proxies[n]).ok
                /\ ProbedFor(n) # {}
                /\ protocols = <<>> =>
                     ProbedFor(n) \subseteq
                         {SchemeAnyCase(proxies[n]),
                          Normalized(SchemeAnyCase(proxies[n]))}

----------------------------------------------------------------------------
(* C20 *)

\* C20, as claimed: every result get_country_codes returns has, as its
\* original, the original string of the entry of ip_data it was looked up
\* for.  ip_mapping is keyed by the clean IP: of two entries with the same
\* address and different ports, both results get the original of the later.
C20_OriginalPreserved ==
    \A r \in DOMAIN ip_results :
        ip_results[r].original = ip_data[ip_results[r].entry][2]

----------------------------------------------------------------------------
(* C21 *)

\* the results marked b in a list of results
CountOf(results, b) ==
    Cardinality({k \in DOMAIN results : results[k].batch = b})

\* the results batch b has: one when check_proxies got its answer, none
\* when it gave up
ExpectedOf(b) == IF pk_got[b] = "answered" THEN 1 ELSE 0

\* C21, as claimed: whenever progress.json records batch number k its
\* results hold the results of every batch below k, once each, and the
\* results file of a run that completes holds the results of every batch,
\* once each.  A resumed run saves its own results only: the results
\* loaded from progress.json are gone from the file at its first save.
C21_ResumeKeepsEveryBatch ==
    /\ pk_progress.exists =>
         \A b \in 0..(pk_progress.batch - 1) :
             CountOf(pk_progress.results, b) = ExpectedOf(b)
    /\ pk_pc = "done" =>
         \A b \in 0..(NBatches - 1) :
             CountOf(pk_output.results, b) = ExpectedOf(b)

----------------------------------------------------------------------------
(* C22 *)

\* the count of the last progress line printed, 0 before the first
ProgressCount == IF progress = <<>> THEN 0 ELSE progress[Len(progress)].done

\* the tasks of the batch under way are those of the lines that follow the
\* lines counted, one task a line, in the order of the file
BatchFollowsCounted ==
    /\ \A j \in DOMAIN tasks : tasks[j].line = ProgressCount + j
    /\ ProgressCount + Len(tasks) <= Len(proxies)
    /\ pc = "gather" => Len(tasks) >= 1

\* a probe has returned for every WorkItem of a line counted, and no probe
\* has started for a line after the batch under way
CountedHaveReturned ==
    /\ \A w \in WorkItems :
          w[1] <= ProgressCount => ReturnsOf(w[1], ProtocolOf(w)) # {}
    /\ pc \in {"loop", "gather"} =>
          \A m \in DOMAIN returned :
              returned[m].line <= ProgressCount + Len(tasks)

\* the counts printed increase and stay within the total
CountsIncrease ==
    \A m \in DOMAIN progress :
        /\ progress[m].total = Len(proxies)
        /\ progress[m].done <= progress[m].total
        /\ m > 1 => progress[m - 1].done < progress[m].done

\* a progress line is printed when no probe of the batch is in flight, and
\* counts the lines of the batch, no more; a batch starts when no task of
\* the batch before is left
BatchByBatch ==
    /\ progress' # progress =>
          /\ ProbesInFlight = {}
          /\ progress' = Append(progress, progress'[Len(progress')])
          /\ ProgressCount' = ProgressCount + Len(tasks)
    /\ (tasks' # <<>> /\ tasks = <<>>) => pc = "loop"
    /\ (tasks' # <<>> /\ tasks # <<>>) => DOMAIN tasks' = DOMAIN tasks

\* C22: the batches partition the file: the batch under way is made of the
\* lines that follow the lines counted, each line once and in file order; a
\* batch starts only after every probe of the batch before has returned and
\* its lines are counted; the progress count increases, never exceeds the
\* total; the run ends, and where it comes to the end of the loop the last
\* count is the number of lines of the file.
C22_BatchesPartition ==
    /\ [](BatchFollowsCounted /\ CountedHaveReturned /\ CountsIncrease)
    /\ [][BatchByBatch]_vars
    /\ <>Terminated
    /\ [](pc \in {"save", "done"} => ProgressCount = Len(proxies))

\* a run of a file of five lines with --threads 2 has ended: three batches,
\* of two lines, two lines and the one line left
C22_Witness ==
    /\ pc = "done"
    /\ Len(proxies) = 5
    /\ args.threads = 2
    /\ Len(progress) = 3
    /\ progress[2].done = 4
    /\ progress[3].done = 5
    /\ returned # <<>>

----------------------------------------------------------------------------
(* C23 *)

\* the POSTs that are answered, among those max_retries allows
AnsweredPosts == {n \in 1..rt_max : rt_pattern[n] = "ok"}

\* every POST max_retries allows is answered with JSON or fails with a
\* RequestException
RequestFailuresOnly == \A n \in 1..rt_max : rt_pattern[n] \in {"ok", "fail"}

\* C23, as claimed: for every max_retries >= 0 and every pattern of request
\* failures, check_proxies returns a list after at most max_retries POSTs:
\* the results of the first POST answered, with no POST after it, or the
\* empty list after max_retries failures; it sleeps after every failed
\* attempt but the last.  With max_retries = 0 the loop has no turn and the
\* function returns None.
C23_AlwaysAList ==
    (rt_result # NotCalled /\ RequestFailuresOnly) =>
        /\ rt_result.kind = "list"
        /\ rt_result.posts <= rt_max
        /\ \A n \in AnsweredPosts :
              (\A m \in AnsweredPosts : n <= m) =>
                  /\ rt_result.value = AnswerFor(0)
                  /\ rt_result.posts = n
        /\ AnsweredPosts = {} =>
              /\ rt_result.value = <<>>
              /\ rt_result.posts = rt_max
        /\ rt_result.slept = {a \in 0..(rt_max - 1) : a + 1 < rt_result.posts}

====
